---------------------------- MODULE Spec2Model ----------------------------
(***************************************************************************)
(* Pixel-domain matching and compositing core of Portrait-Poc.             *)
(*                                                                         *)
(*   src/poc.py      match, find_position_in_first_image  (SpecPoc)        *)
(*   src/replace.py  manual_fill_polygon                  (SpecReplace)    *)
(*                                                                         *)
(* A frame of poc.py is a list of rows of RGB triples, frame[y][x]; it is  *)
(* modelled as a function from 0..height-1 to functions from 0..width-1 to *)
(* <<r, g, b>>.  Tuples are 1-indexed, so channel c of the code is c+1.    *)
(*                                                                         *)
(* The block size, the search ranges and the mismatch tolerance of poc.py  *)
(* (60, 40, 20 and 1000 in the source) are configuration; the algorithms   *)
(* are checked at reduced values of them, which are bounds of the model.   *)
(***************************************************************************)
EXTENDS Integers, Sequences, FiniteSets, TLC

VARIABLES
    \* ---- poc.py: find_position_in_first_image ----
    frame_one,   \* the first image (fixed block)
    frame_two,   \* the second image (sliding window)
    start_x,     \* argument start_x
    start_y,     \* argument start_y
    pc,          \* "idle" | "scan" | "done" | "raised"
    x,           \* loop variable x of find_position_in_first_image
    y,           \* loop variable y of find_position_in_first_image
    min_val,     \* local min_val
    xx,          \* local xx
    yy,          \* local yy
    last,        \* the last call of match: its arguments, outcome and return
    \* ---- replace.py: manual_fill_polygon ----
    image,       \* the target image: [width, height, px], px[<<x, y>>] an RGB triple
    vertices,    \* argument vertices: a sequence of <<x, y>>
    tex_pixels,  \* argument tex_pixels: tex_pixels[<<x, y>>] an RGB triple
    tex_width,   \* argument tex_width
    tex_height,  \* argument tex_height
    frame_two_x, \* configuration FRAME_TWO_X
    frame_two_y, \* configuration FRAME_TWO_Y
    similarity_threshold, \* configuration SIMILARITY_THRESHOLD
    stage,       \* "off" | "called" | "compared" | "returned"
    orig,        \* the target's pixels when manual_fill_polygon was called
    maskWrites,  \* the coordinates the comparison loop has written
    fillWrites,  \* the coordinates the fill loop has written
    \* ---- replace.py: manual_fill_polygon called again with the same arguments ----
    reruns,      \* the number of repeated calls made
    first_px,    \* the target's pixels when the first call returned
    \* ---- poc.py: gaussian_blur ----
    blur_image,  \* argument image
    radius,      \* argument radius
    blur_pc,     \* "off" | "called" | "kernel" | "horizontal" | "returned" | "raised"
    kernel,      \* local kernel
    temp,        \* local temp
    blurred,     \* local blurred, the value returned
    \* ---- replace.py: TexturizerApp (out_img is the variable image) ----
    drawn_points,  \* self.drawn_points: a sequence of <<x, y>>
    current_mode,  \* self.current_mode: "draw" | "erase"
    img_orig,      \* self.img_orig: its pixels
    cursor_x,      \* self.cursor_x
    cursor_y,      \* self.cursor_y
    saved,         \* the pixels written to OUTPUT_FILENAME, <<>> before any save
    process_calls, \* the number of calls of process_image
    entry_px,      \* the pixels of out_img when process_image was called
    last_op,       \* the last call of _add_point_at: its mode, its coordinates and the points and pixels before it
    \* ---- manual_blur.py: ImageEditorApp ----
    pil_image,        \* self.pil_image: [width, height, px]
    ref_image,        \* self.ref_image: [width, height, px]
    pan_x,            \* self.pan_x
    pan_y,            \* self.pan_y
    drag_start_x,     \* self.drag_start_x
    drag_start_y,     \* self.drag_start_y
    is_dragging,      \* self.is_dragging
    current_center_x, \* self.current_center_x
    current_center_y, \* self.current_center_y
    canvas_cursor,    \* the canvas's cursor option: "arrow" | "fleur"
    button,           \* mouse button 1: "up" | "down"
    pressed_at,       \* where button 1 was last pressed
    moved_far,        \* a motion since the last press went beyond DRAG_THRESHOLD of pressed_at
    last_event        \* the last mouse event handled and, for a release, what it did

pocVars == <<frame_one, frame_two, start_x, start_y, pc, x, y, min_val, xx, yy, last>>

replaceVars == <<image, vertices, tex_pixels, tex_width, tex_height, frame_two_x, frame_two_y, similarity_threshold, stage, orig, maskWrites, fillWrites>>

againVars == <<reruns, first_px>>

\* the variables of the components modelled after poc.py's search and
\* replace.py's manual_fill_polygon
blurVars == <<blur_image, radius, blur_pc, kernel, temp, blurred>>

appVars == <<drawn_points, current_mode, img_orig, cursor_x, cursor_y, saved, process_calls, entry_px, last_op>>

editorVars == <<pil_image, ref_image, pan_x, pan_y, drag_start_x, drag_start_y, is_dragging, current_center_x, current_center_y, canvas_cursor, button, pressed_at, moved_far, last_event>>

laterVars == <<againVars, blurVars, appVars, editorVars>>

vars == <<pocVars, replaceVars, laterVars>>

----------------------------------------------------------------------------
(* Configuration of poc.py *)

\* src/poc.py:18 sets 60; reduced.
MATCH_BLOCK_SIZE == 2
\* src/poc.py:21 sets 40; reduced.
SEARCH_RANGE_X == 2
\* src/poc.py:24 sets 20; reduced.
SEARCH_RANGE_Y == 1
\* src/poc.py:27
PIXEL_DIFF_THRESHOLD == 15
\* src/poc.py:30 sets 1000; reduced (below the block's pixel count, as in the source).
MAX_MISMATCH_TOLERANCE == 3

\* src/poc.py:160 and 178: the score returned for an infeasible block
INFEASIBLE == 10000000
\* src/poc.py:187: the initial min_val
MIN_VAL_INIT == 1000000000
\* src/poc.py:188: the initial xx, yy
NO_COORD == -1

----------------------------------------------------------------------------
(* Bounds of the model: the frames the search is run on *)

\* the largest frame is MATCH_BLOCK_SIZE + MaxSlackX wide
MaxSlackX == 3
\* the largest frame is MATCH_BLOCK_SIZE + MaxSlackY high
MaxSlackY == 2

FrameDims ==
    { <<MATCH_BLOCK_SIZE, MATCH_BLOCK_SIZE>>,
      <<MATCH_BLOCK_SIZE + 1, MATCH_BLOCK_SIZE + 1>>,
      <<MATCH_BLOCK_SIZE + MaxSlackX, MATCH_BLOCK_SIZE + MaxSlackY>> }

Patterns == {"flatA", "flatB", "near", "spot", "grad"}

\* the pixel of pattern p at column px, row py
PatternPixel(p, px, py) ==
    CASE p = "flatA" -> <<10, 10, 10>>
      [] p = "flatB" -> <<200, 200, 200>>
      [] p = "near"  -> IF (px + 2 * py) % 4 = 0 THEN <<25, 10, 10>> ELSE <<24, 10, 10>>
      [] p = "spot"  -> IF px = MATCH_BLOCK_SIZE /\ py = MATCH_BLOCK_SIZE - 1
                        THEN <<200, 200, 200>> ELSE <<10, 10, 10>>
      [] OTHER       -> <<(40 * px) % 256, (60 * py) % 256, 0>>

MakeFrame(p, w, h) ==
    [py \in 0..(h - 1) |-> [px \in 0..(w - 1) |-> PatternPixel(p, px, py)]]

Frames == { MakeFrame(p, d[1], d[2]) : p \in Patterns, d \in FrameDims }

StartXs == (-1)..MaxSlackX
StartYs == (-1)..MaxSlackY

----------------------------------------------------------------------------
(* Python helpers *)

Abs(n) == IF n < 0 THEN -n ELSE n

\* len(frame)
Len2(frame) == Cardinality(DOMAIN frame)

\* frame[row][col] raises IndexError outside the list (the indices used by
\* match are never negative once the bounds check has passed)
CanRead(frame, col, row) ==
    /\ row \in DOMAIN frame
    /\ col \in DOMAIN frame[row]

----------------------------------------------------------------------------
(* poc.py: match *)

\* a slip of the comparison: a window that ends one pixel past the edge passes
OutOfBounds_Strict(width, height, second_start_x, second_start_y, first_start_x, first_start_y) ==
    \/ first_start_x + MATCH_BLOCK_SIZE > width
    \/ first_start_y + MATCH_BLOCK_SIZE > height
    \/ second_start_x + MATCH_BLOCK_SIZE > width
    \/ second_start_y + MATCH_BLOCK_SIZE > height
    \/ first_start_x < 0
    \/ first_start_y < 0
    \/ second_start_x < 0
    \/ second_start_y < 0

\* the bounds check of match; width and height are those of frame_one
OutOfBounds(width, height, second_start_x, second_start_y, first_start_x, first_start_y) ==
    \/ first_start_x + MATCH_BLOCK_SIZE >= width
    \/ first_start_y + MATCH_BLOCK_SIZE >= height
    \/ second_start_x + MATCH_BLOCK_SIZE >= width
    \/ second_start_y + MATCH_BLOCK_SIZE >= height
    \/ first_start_x < 0
    \/ first_start_y < 0
    \/ second_start_x < 0
    \/ second_start_y < 0

\* Manhattan distance of two RGB pixels
Dif(p1, p2) == Abs(p1[1] - p2[1]) + Abs(p1[2] - p2[2]) + Abs(p1[3] - p2[3])

\* a slip of the comparison: a distance equal to the threshold counts as a match
IsMatch_Inclusive(dif) == Abs(dif) <= PIXEL_DIFF_THRESHOLD

\* "if abs(dif) < PIXEL_DIFF_THRESHOLD"
IsMatch(dif) == Abs(dif) < PIXEL_DIFF_THRESHOLD

\* a slip of the comparison: the scan stops one mismatch early
ExceedsTolerance_Early(pixel_cnt, match_cnt) == pixel_cnt - match_cnt >= MAX_MISMATCH_TOLERANCE

\* "if pixel_cnt - match_cnt > MAX_MISMATCH_TOLERANCE"
ExceedsTolerance(pixel_cnt, match_cnt) == pixel_cnt - match_cnt > MAX_MISMATCH_TOLERANCE

\* range(0, MATCH_BLOCK_SIZE + 1)
BlockSide == MATCH_BLOCK_SIZE + 1

\* the number of iterations of the two nested loops
BlockPixels == BlockSide * BlockSide

\* The nested loops of match from their k-th iteration on (k counts from 0,
\* row by row: y = k \div BlockSide, x = k % BlockSide).  The outcome records
\* how the call ended (kind), what it returned (ret) and how many iterations
\* it entered (visited); a call that raises returns nothing.
RECURSIVE MatchLoop(_, _, _, _, _, _, _, _, _)
MatchLoop(f1, f2, second_start_x, second_start_y, first_start_x, first_start_y, k, pixel_cnt, match_cnt) ==
    IF k >= BlockPixels
    THEN [kind |-> "scanned", ret |-> <<pixel_cnt, match_cnt>>, visited |-> pixel_cnt]
    ELSE
        LET ly == k \div BlockSide
            lx == k % BlockSide
            cnt == pixel_cnt + 1
        IN  IF \/ ~CanRead(f1, lx + first_start_x, ly + first_start_y)
               \/ ~CanRead(f2, lx + second_start_x, ly + second_start_y)
            THEN [kind |-> "raised", ret |-> <<>>, visited |-> cnt]
            ELSE
                LET dif == Dif(f1[ly + first_start_y][lx + first_start_x],
                               f2[ly + second_start_y][lx + second_start_x])
                    m == IF IsMatch(dif) THEN match_cnt + 1 ELSE match_cnt
                IN  IF ExceedsTolerance(cnt, m)
                    THEN [kind |-> "capped", ret |-> <<INFEASIBLE, 0>>, visited |-> cnt]
                    ELSE MatchLoop(f1, f2, second_start_x, second_start_y,
                                   first_start_x, first_start_y, k + 1, cnt, m)

Match(f1, f2, second_start_x, second_start_y, first_start_x, first_start_y) ==
    LET width == Len2(f1[0])
        height == Len2(f1)
    IN  IF OutOfBounds(width, height, second_start_x, second_start_y,
                       first_start_x, first_start_y)
        THEN [kind |-> "rejected", ret |-> <<INFEASIBLE, 0>>, visited |-> 0]
        ELSE MatchLoop(f1, f2, second_start_x, second_start_y,
                       first_start_x, first_start_y, 0, 0, 0)

----------------------------------------------------------------------------
(* poc.py: find_position_in_first_image *)

\* a slip of the comparison: a later offset of equal score replaces the earlier
Better_LastWins(best, score) == best >= score

\* "if min_val > i - j"
Better(best, score) == best > score

\* a slip of the adjustment: the far corner of the block instead of its centre
Center_FarCorner(v) == v + MATCH_BLOCK_SIZE

\* "y + (MATCH_BLOCK_SIZE // 2)"
Center(v) == v + (MATCH_BLOCK_SIZE \div 2)

\* range(start_x - SEARCH_RANGE_X, start_x + SEARCH_RANGE_X + 1)
FirstX == start_x - SEARCH_RANGE_X
LastX == start_x + SEARCH_RANGE_X
\* range(start_y - SEARCH_RANGE_Y, start_y + SEARCH_RANGE_Y + 1)
FirstY == start_y - SEARCH_RANGE_Y
LastY == start_y + SEARCH_RANGE_Y

\* replace.py is not running
ReplaceOff ==
    /\ image = [width |-> 0, height |-> 0, px |-> <<>>]
    /\ vertices = <<>>
    /\ tex_pixels = <<>>
    /\ tex_width = 0
    /\ tex_height = 0
    /\ frame_two_x = 0
    /\ frame_two_y = 0
    /\ similarity_threshold = 0
    /\ stage = "off"
    /\ orig = <<>>
    /\ maskWrites = {}
    /\ fillWrites = {}

\* manual_fill_polygon has not been called again
AgainOff ==
    /\ reruns = 0
    /\ first_px = <<>>

\* gaussian_blur is not running
BlurOff ==
    /\ blur_image = <<>>
    /\ radius = 0
    /\ blur_pc = "off"
    /\ kernel = <<>>
    /\ temp = <<>>
    /\ blurred = <<>>

\* _add_point_at has not been called
NoOp == [kind |-> "none", at |-> <<0, 0>>, points |-> <<>>, px |-> <<>>]

\* TexturizerApp is not running
AppOff ==
    /\ drawn_points = <<>>
    /\ current_mode = "off"
    /\ img_orig = <<>>
    /\ cursor_x = 0
    /\ cursor_y = 0
    /\ saved = <<>>
    /\ process_calls = 0
    /\ entry_px = <<>>
    /\ last_op = NoOp

NoEvent == [kind |-> "none", under |-> {}, before |-> <<>>, far |-> FALSE, moved |-> FALSE, copied |-> FALSE]

\* ImageEditorApp is not running
EditorOff ==
    /\ pil_image = [width |-> 0, height |-> 0, px |-> <<>>]
    /\ ref_image = [width |-> 0, height |-> 0, px |-> <<>>]
    /\ pan_x = 0
    /\ pan_y = 0
    /\ drag_start_x = 0
    /\ drag_start_y = 0
    /\ is_dragging = FALSE
    /\ current_center_x = 0
    /\ current_center_y = 0
    /\ canvas_cursor = "off"
    /\ button = "up"
    /\ pressed_at = <<0, 0>>
    /\ moved_far = FALSE
    /\ last_event = NoEvent

\* the components modelled further below are not running
LaterOff == AgainOff /\ BlurOff /\ AppOff /\ EditorOff

NoCall == [kind |-> "none", ret |-> <<>>, visited |-> 0, second |-> <<0, 0>>]

\* poc.py is not running
PocOff ==
    /\ frame_one = <<>>
    /\ frame_two = <<>>
    /\ start_x = 0
    /\ start_y = 0
    /\ pc = "off"
    /\ x = 0
    /\ y = 0
    /\ min_val = 0
    /\ xx = 0
    /\ yy = 0
    /\ last = NoCall

InitPoc ==
    /\ frame_one \in Frames
    /\ frame_two \in Frames
    /\ start_x \in StartXs
    /\ start_y \in StartYs
    /\ pc = "idle"
    /\ x = 0
    /\ y = 0
    /\ min_val = 0
    /\ xx = 0
    /\ yy = 0
    /\ last = NoCall
    /\ ReplaceOff
    /\ LaterOff

\* the call: min_val = 1_000_000_000; yy, xx = -1, -1; the loops start
FindEnter ==
    /\ pc = "idle"
    /\ min_val' = MIN_VAL_INIT
    /\ xx' = NO_COORD
    /\ yy' = NO_COORD
    /\ x' = FirstX
    /\ y' = FirstY
    /\ pc' = "scan"
    /\ UNCHANGED <<frame_one, frame_two, start_x, start_y, last>>
    /\ UNCHANGED <<replaceVars, laterVars>>

\* one iteration of the inner loop: a call of match and the comparison
FindStep ==
    /\ pc = "scan"
    /\ y <= LastY
    /\ LET r == Match(frame_one, frame_two, x, y, start_x, start_y)
       IN  /\ last' = [kind |-> r.kind, ret |-> r.ret, visited |-> r.visited,
                       second |-> <<x, y>>]
           /\ IF r.kind = "raised"
              THEN /\ pc' = "raised"
                   /\ UNCHANGED <<min_val, xx, yy, x, y>>
              ELSE /\ IF Better(min_val, r.ret[1] - r.ret[2])
                      THEN /\ min_val' = r.ret[1] - r.ret[2]
                           /\ yy' = Center(y)
                           /\ xx' = Center(x)
                      ELSE UNCHANGED <<min_val, xx, yy>>
                   /\ IF x < LastX
                      THEN /\ x' = x + 1
                           /\ y' = y
                      ELSE /\ x' = FirstX
                           /\ y' = y + 1
                   /\ pc' = "scan"
    /\ UNCHANGED <<frame_one, frame_two, start_x, start_y>>
    /\ UNCHANGED <<replaceVars, laterVars>>

\* "return xx, yy"
FindReturn ==
    /\ pc = "scan"
    /\ y > LastY
    /\ pc' = "done"
    /\ UNCHANGED <<frame_one, frame_two, start_x, start_y, x, y, min_val, xx, yy, last>>
    /\ UNCHANGED <<replaceVars, laterVars>>

NextPoc == FindEnter \/ FindStep \/ FindReturn

SpecPoc == InitPoc /\ [][NextPoc]_vars

----------------------------------------------------------------------------
(* Configuration of replace.py *)

\* src/replace.py:21
FRAME_ONE_X == 504
\* src/replace.py:22
FRAME_ONE_Y == 431
\* src/replace.py:28
SIMILARITY_THRESHOLD == 1
\* src/replace.py:73: the channel value that is nudged down instead of up
CHANNEL_MAX == 255

----------------------------------------------------------------------------
(* Bounds of the model: the images and polygons manual_fill_polygon is run on *)

\* the width of the target image
ImgW == 5
\* the height of the target image
ImgH == 4
\* the longest vertex list
MaxVertices == 4

\* vertex coordinates: inside the image, on its border and outside of it
Points == { <<2, 0>>, <<3, 2>>, <<-1, 5>>, <<6, -1>> }

Polygons == UNION { [1..n -> Points] : n \in 0..MaxVertices }

ImagePatterns == {"main", "other"}

\* the pixel of image pattern p at (px, py); "other" differs from "main" on
\* odd columns, by a distance of 1 except on the diagonal
ImagePixel(p, px, py) ==
    IF p = "other" /\ px % 2 = 1
    THEN <<(50 * px + 1) % 256, (30 * py) % 256, 7>>
    ELSE IF px = py THEN <<255, 255, 255>>
         ELSE <<(50 * px) % 256, (30 * py) % 256, 7>>

Coords(w, h) == (0..(w - 1)) \X (0..(h - 1))

MakePixels(p, w, h) == [c \in Coords(w, h) |-> ImagePixel(p, c[1], c[2])]

MakeImage(p, w, h) == [width |-> w, height |-> h, px |-> MakePixels(p, w, h)]

TexDims == { <<ImgW, ImgH>>, <<ImgW - 1, ImgH - 2>> }

\* FRAME_TWO_X, FRAME_TWO_Y: the source's values (no shift), a shift by one
\* in each axis, and a shift that leaves no sample inside the texture
FrameTwos ==
    { <<FRAME_ONE_X, FRAME_ONE_Y>>,
      <<FRAME_ONE_X + 1, FRAME_ONE_Y - 1>>,
      <<FRAME_ONE_X + ImgW, FRAME_ONE_Y>> }

----------------------------------------------------------------------------
(* replace.py: manual_fill_polygon *)

Max(a, b) == IF a > b THEN a ELSE b
Min(a, b) == IF a < b THEN a ELSE b

\* min(v[1] for v in vertices), max(v[1] for v in vertices)
MinVertexY(vs) == CHOOSE m \in {vs[i][2] : i \in DOMAIN vs} : \A i \in DOMAIN vs : m <= vs[i][2]
MaxVertexY(vs) == CHOOSE m \in {vs[i][2] : i \in DOMAIN vs} : \A i \in DOMAIN vs : m >= vs[i][2]

\* min_y = max(0, min_y); max_y = min(image.height - 1, max_y)
ClampedMinY(vs) == Max(0, MinVertexY(vs))
ClampedMaxY(img, vs) == Min(img.height - 1, MaxVertexY(vs))

\* a slip of the mapping: the alignment offset is left out
TexCoord_Unshifted(c, two_x, two_y) == c

\* tex_x = (x + FRAME_TWO_X - FRAME_ONE_X); tex_y = (y + FRAME_TWO_Y - FRAME_ONE_Y)
TexCoord(c, two_x, two_y) == <<c[1] + two_x - FRAME_ONE_X, c[2] + two_y - FRAME_ONE_Y>>

\* 0 <= tex_x < tex_width and 0 <= tex_y < tex_height
InTexture(t, tw, th) == 0 <= t[1] /\ t[1] < tw /\ 0 <= t[2] /\ t[2] < th

\* diff = abs(r1 - r2) + abs(g1 - g2) + abs(b1 - b2)
Diff(p1, p2) == Abs(p1[1] - p2[1]) + Abs(p1[2] - p2[2]) + Abs(p1[3] - p2[3])

\* a slip of the comparison: a distance equal to the threshold counts as similar
Similar_Inclusive(p1, p2) == Diff(p1, p2) <= similarity_threshold

\* "if diff < SIMILARITY_THRESHOLD"
Similar(p1, p2) == Diff(p1, p2) < similarity_threshold

\* new_r = r2 - 1 if r2 == 255 else r2 + 1; (new_r, g2, b2)
Nudged(p2) == <<IF p2[1] = CHANNEL_MAX THEN p2[1] - 1 ELSE p2[1] + 1, p2[2], p2[3]>>

\* the coordinates the comparison loop writes: every pixel of the image whose
\* sample is inside the texture and similar to it
ComparedCoords(img, tp, tw, th, two_x, two_y) ==
    { c \in Coords(img.width, img.height) :
        /\ InTexture(TexCoord(c, two_x, two_y), tw, th)
        /\ Similar(img.px[c], tp[TexCoord(c, two_x, two_y)]) }

\* a slip of the write: the target's own pixel is nudged, not the sample
ComparePass_Own(img, tp, tw, th, two_x, two_y) ==
    LET compared == ComparedCoords(img, tp, tw, th, two_x, two_y)
    IN  [c \in Coords(img.width, img.height) |->
            IF c \in compared THEN Nudged(img.px[c]) ELSE img.px[c]]

\* the pixels after the comparison loop (each pixel is read and written once)
ComparePass(img, tp, tw, th, two_x, two_y) ==
    LET compared == ComparedCoords(img, tp, tw, th, two_x, two_y)
    IN  [c \in Coords(img.width, img.height) |->
            IF c \in compared THEN Nudged(tp[TexCoord(c, two_x, two_y)]) ELSE img.px[c]]

\* p2 = vertices[(i + 1) % len(vertices)], for the 1-based index i
NextVertex(vs, i) == vs[(i % Len(vs)) + 1]

\* a slip of the edge rule: the interval is closed at its upper end
Crosses_Closed(p1, p2, sy) == (p1[2] <= sy /\ sy <= p2[2]) \/ (p2[2] <= sy /\ sy <= p1[2])

\* (p1[1] <= y < p2[1]) or (p2[1] <= y < p1[1])
Crosses(p1, p2, sy) == (p1[2] <= sy /\ sy < p2[2]) \/ (p2[2] <= sy /\ sy < p1[2])

\* x = p1[0] + (y - p1[1]) * (p2[0] - p1[0]) / (p2[1] - p1[1]), as the
\* fraction <<numerator, denominator>> with a positive denominator
IntersectionX(p1, p2, sy) ==
    LET d == p2[2] - p1[2]
        n == p1[1] * d + (sy - p1[2]) * (p2[1] - p1[1])
    IN  IF d < 0 THEN <<-n, -d>> ELSE <<n, d>>

\* the list "intersections" of scanline sy, before it is sorted: edges i..len
RECURSIVE IntersectionsFrom(_, _, _)
IntersectionsFrom(vs, sy, i) ==
    IF i > Len(vs) THEN <<>>
    ELSE LET p1 == vs[i]
             p2 == NextVertex(vs, i)
         IN  IF Crosses(p1, p2, sy) /\ p1[2] # p2[2]
             THEN <<IntersectionX(p1, p2, sy)>> \o IntersectionsFrom(vs, sy, i + 1)
             ELSE IntersectionsFrom(vs, sy, i + 1)

\* a < b for fractions with positive denominators
FracLess(a, b) == a[1] * b[2] < b[1] * a[2]

\* q inserted into the sorted list s, after the elements not greater than it
RECURSIVE InsertSorted(_, _)
InsertSorted(s, q) ==
    IF s = <<>> THEN <<q>>
    ELSE IF FracLess(q, Head(s)) THEN <<q>> \o s
         ELSE <<Head(s)>> \o InsertSorted(Tail(s), q)

\* intersections.sort()
RECURSIVE Sorted(_)
Sorted(s) == IF s = <<>> THEN <<>> ELSE InsertSorted(Sorted(Tail(s)), Head(s))

\* round(): to the nearest integer, a half to the even neighbour
Round(q) ==
    LET f == q[1] \div q[2]
        r == q[1] - f * q[2]
    IN  IF 2 * r < q[2] THEN f
        ELSE IF 2 * r > q[2] THEN f + 1
        ELSE IF f % 2 = 0 THEN f ELSE f + 1

\* a slip of the range: the last interior column is left out
SpanRange_Short(x_start, x_end) == (x_start + 1)..(x_end - 2)

\* a slip of the range: both endpoint columns are filled as well
SpanRange_Inclusive(x_start, x_end) == x_start..x_end

\* range(x_start + 1, x_end)
SpanRange(x_start, x_end) == (x_start + 1)..(x_end - 1)

\* the columns the fill loop visits on a scanline with sorted intersections s:
\* for i in range(0, len, 2): if i + 1 < len: ... (i is 1-based here)
RECURSIVE SpanColumns(_, _, _)
SpanColumns(s, i, width) ==
    IF i + 1 > Len(s) THEN {}
    ELSE LET x_start == Max(0, Round(s[i]))
             x_end == Min(width - 1, Round(s[i + 1]))
         IN  SpanRange(x_start, x_end) \cup SpanColumns(s, i + 2, width)

\* range(min_y, max_y + 1)
ScanLines(img, vs) == ClampedMinY(vs)..ClampedMaxY(img, vs)

\* the coordinates the inner loop of the fill visits on scanline sy
RowCoords(img, vs, sy) ==
    { <<cx, sy>> : cx \in SpanColumns(Sorted(IntersectionsFrom(vs, sy, 1)), 1, img.width) }

\* the coordinates the fill loop writes: those it visits whose sample is
\* inside the texture
FilledCoords(img, vs, tw, th, two_x, two_y) ==
    { c \in UNION { RowCoords(img, vs, sy) : sy \in ScanLines(img, vs) } :
        InTexture(TexCoord(c, two_x, two_y), tw, th) }

\* the pixels after the fill loop: pixels[x, y] = tex_pixels[tex_x, tex_y]
\* (a write outside the image would raise, and "except Exception: pass" skips it)
FillPass(img, vs, tp, tw, th, two_x, two_y) ==
    LET filled == FilledCoords(img, vs, tw, th, two_x, two_y)
    IN  [c \in Coords(img.width, img.height) |->
            IF c \in filled THEN tp[TexCoord(c, two_x, two_y)] ELSE img.px[c]]

InitReplace ==
    /\ image \in { MakeImage(p, ImgW, ImgH) : p \in ImagePatterns }
    /\ vertices \in Polygons
    /\ \E p \in ImagePatterns, d \in TexDims :
          /\ tex_pixels = MakePixels(p, d[1], d[2])
          /\ tex_width = d[1]
          /\ tex_height = d[2]
    /\ \E f \in FrameTwos :
          /\ frame_two_x = f[1]
          /\ frame_two_y = f[2]
    /\ similarity_threshold = SIMILARITY_THRESHOLD
    /\ stage = "called"
    /\ orig = image.px
    /\ maskWrites = {}
    /\ fillWrites = {}
    /\ PocOff
    /\ LaterOff

\* "if not vertices: return"
ReturnEmpty ==
    /\ stage = "called"
    /\ vertices = <<>>
    /\ stage' = "returned"
    /\ UNCHANGED <<image, vertices, tex_pixels, tex_width, tex_height, frame_two_x, frame_two_y, similarity_threshold, orig, maskWrites, fillWrites>>
    /\ UNCHANGED <<pocVars, laterVars>>

\* the loop over every pixel of the image that compares it with the texture
CompareAll ==
    /\ stage = "called"
    /\ vertices # <<>>
    /\ image' = [image EXCEPT !.px = ComparePass(image, tex_pixels, tex_width, tex_height, frame_two_x, frame_two_y)]
    /\ maskWrites' = ComparedCoords(image, tex_pixels, tex_width, tex_height, frame_two_x, frame_two_y)
    /\ stage' = "compared"
    /\ UNCHANGED <<vertices, tex_pixels, tex_width, tex_height, frame_two_x, frame_two_y, similarity_threshold, orig, fillWrites>>
    /\ UNCHANGED <<pocVars, laterVars>>

\* "1. Fill Inside Polygon": the scanline loop, then the function returns
FillInside ==
    /\ stage = "compared"
    /\ image' = [image EXCEPT !.px = FillPass(image, vertices, tex_pixels, tex_width, tex_height, frame_two_x, frame_two_y)]
    /\ fillWrites' = FilledCoords(image, vertices, tex_width, tex_height, frame_two_x, frame_two_y)
    /\ stage' = "returned"
    /\ UNCHANGED <<vertices, tex_pixels, tex_width, tex_height, frame_two_x, frame_two_y, similarity_threshold, orig, maskWrites>>
    /\ UNCHANGED <<pocVars, laterVars>>

NextReplace == ReturnEmpty \/ CompareAll \/ FillInside

SpecReplace == InitReplace /\ [][NextReplace]_vars

----------------------------------------------------------------------------
(* replace.py: manual_fill_polygon called twice with the same arguments *)

\* SIMILARITY_THRESHOLD as the source sets it, and one above
Thresholds == { SIMILARITY_THRESHOLD, SIMILARITY_THRESHOLD + 1 }

\* the alignments of the repeated call: the source's and the shifted one
FrameTwosAgain == { <<FRAME_ONE_X, FRAME_ONE_Y>>, <<FRAME_ONE_X + 1, FRAME_ONE_Y - 1>> }

InitTwice ==
    /\ image \in { MakeImage(p, ImgW, ImgH) : p \in ImagePatterns }
    /\ vertices \in Polygons
    /\ \E p \in ImagePatterns : tex_pixels = MakePixels(p, ImgW, ImgH)
    /\ tex_width = ImgW
    /\ tex_height = ImgH
    /\ \E f \in FrameTwosAgain :
          /\ frame_two_x = f[1]
          /\ frame_two_y = f[2]
    /\ similarity_threshold \in Thresholds
    /\ stage = "called"
    /\ orig = image.px
    /\ maskWrites = {}
    /\ fillWrites = {}
    /\ PocOff
    /\ LaterOff

\* the same call once more: same target, vertices, texture and configuration
CallAgain ==
    /\ stage = "returned"
    /\ reruns = 0
    /\ reruns' = 1
    /\ first_px' = image.px
    /\ stage' = "called"
    /\ orig' = image.px
    /\ maskWrites' = {}
    /\ fillWrites' = {}
    /\ UNCHANGED <<image, vertices, tex_pixels, tex_width, tex_height, frame_two_x, frame_two_y, similarity_threshold>>
    /\ UNCHANGED <<pocVars, blurVars, appVars, editorVars>>

NextTwice == NextReplace \/ CallAgain

SpecTwice == InitTwice /\ [][NextTwice]_vars

----------------------------------------------------------------------------
(* poc.py: gaussian_kernel, gaussian_blur *)

\* the most negative radius is -MaxNegRadius
MaxNegRadius == 2

\* The radii gaussian_blur is called with.  For a radius of 1 or more the
\* kernel's weights are values of math.exp, floating-point numbers that are
\* not represented here; the radii are those for which gaussian_kernel is
\* decided without evaluating math.exp.
Radii == (-MaxNegRadius)..0

\* range(-radius, radius+1)
KernelRange(r) == (-r)..r

\* 2 * sigma**2 with sigma = radius / 2.0, as the fraction <<numerator, denominator>>
TwoSigmaSquared(r) == <<r * r, 2>>

\* -(x**2) / (2 * sigma**2) raises ZeroDivisionError when the divisor is 0.0;
\* the division is evaluated for the first x of a non-empty range
KernelRaises(r) == KernelRange(r) # {} /\ TwoSigmaSquared(r)[1] = 0

\* what gaussian_kernel returns when its range is empty: sum([]) is 0 and the
\* normalising comprehension divides nothing
EmptyKernel == <<>>

\* min(max(v, 0), hi)
Clamp(v, hi) == Min(Max(v, 0), hi)

\* the horizontal pass's total of channel ch at (px, py), from tap k on:
\* dx = k - radius; nx = min(max(x + dx, 0), width - 1); total += channel * kernel[k]
RECURSIVE HorizontalTotal(_, _, _, _, _, _, _)
HorizontalTotal(img, kern, r, px, py, ch, k) ==
    IF k >= Len(kern) THEN 0
    ELSE img[py][Clamp(px + (k - r), Len2(img[0]) - 1)][ch] * kern[k + 1]
         + HorizontalTotal(img, kern, r, px, py, ch, k + 1)

\* the vertical pass's total of channel ch at (px, py), from tap k on:
\* dy = k - radius; ny = min(max(y + dy, 0), height - 1); total += channel * kernel[k]
RECURSIVE VerticalTotal(_, _, _, _, _, _, _)
VerticalTotal(tmp, kern, r, px, py, ch, k) ==
    IF k >= Len(kern) THEN 0
    ELSE tmp[Clamp(py + (k - r), Len2(tmp) - 1)][px][ch] * kern[k + 1]
         + VerticalTotal(tmp, kern, r, px, py, ch, k + 1)

\* temp after the horizontal pass
HorizontalPass(img, kern, r) ==
    [py \in DOMAIN img |-> [px \in DOMAIN img[py] |->
        <<HorizontalTotal(img, kern, r, px, py, 1, 0),
          HorizontalTotal(img, kern, r, px, py, 2, 0),
          HorizontalTotal(img, kern, r, px, py, 3, 0)>>]]

\* blurred after the vertical pass; int() of a total, which is a whole number
\* here (the total over an empty kernel is 0.0)
VerticalPass(tmp, kern, r) ==
    [py \in DOMAIN tmp |-> [px \in DOMAIN tmp[py] |->
        <<VerticalTotal(tmp, kern, r, px, py, 1, 0),
          VerticalTotal(tmp, kern, r, px, py, 2, 0),
          VerticalTotal(tmp, kern, r, px, py, 3, 0)>>]]

InitBlur ==
    /\ blur_image \in Frames
    /\ radius \in Radii
    /\ blur_pc = "called"
    /\ kernel = <<>>
    /\ temp = <<>>
    /\ blurred = <<>>
    /\ PocOff
    /\ ReplaceOff
    /\ AgainOff
    /\ AppOff
    /\ EditorOff

\* kernel = gaussian_kernel(radius) raises ZeroDivisionError, and so does gaussian_blur
KernelDivides ==
    /\ blur_pc = "called"
    /\ KernelRaises(radius)
    /\ blur_pc' = "raised"
    /\ UNCHANGED <<blur_image, radius, kernel, temp, blurred>>
    /\ UNCHANGED <<pocVars, replaceVars, againVars, appVars, editorVars>>

\* kernel = gaussian_kernel(radius) returns
KernelReturns ==
    /\ blur_pc = "called"
    /\ ~KernelRaises(radius)
    /\ KernelRange(radius) = {}
    /\ kernel' = EmptyKernel
    /\ blur_pc' = "kernel"
    /\ UNCHANGED <<blur_image, radius, temp, blurred>>
    /\ UNCHANGED <<pocVars, replaceVars, againVars, appVars, editorVars>>

\* "# Horizontal pass"
BlurHorizontal ==
    /\ blur_pc = "kernel"
    /\ temp' = HorizontalPass(blur_image, kernel, radius)
    /\ blur_pc' = "horizontal"
    /\ UNCHANGED <<blur_image, radius, kernel, blurred>>
    /\ UNCHANGED <<pocVars, replaceVars, againVars, appVars, editorVars>>

\* "# Vertical pass" and "return blurred"
BlurVertical ==
    /\ blur_pc = "horizontal"
    /\ blurred' = VerticalPass(temp, kernel, radius)
    /\ blur_pc' = "returned"
    /\ UNCHANGED <<blur_image, radius, kernel, temp>>
    /\ UNCHANGED <<pocVars, replaceVars, againVars, appVars, editorVars>>

NextBlur == KernelDivides \/ KernelReturns \/ BlurHorizontal \/ BlurVertical

SpecBlur == InitBlur /\ [][NextBlur]_vars

----------------------------------------------------------------------------
(* replace.py: TexturizerApp *)

\* src/replace.py:31
DRAW_COLOR == <<255, 255, 255>>
\* src/replace.py:32
ERASE_RADIUS == 3

\* the most points drawn before process_image is called
MaxPoints == 3

\* where the user clicks: the image's top-left corner, a point inside it,
\* its bottom-right corner (more than ERASE_RADIUS columns from the
\* top-left corner) and two points below the image, near its left and right
\* edges (the canvas reaches beyond the image once the window is enlarged)
ClickPoints ==
    { <<0, 0>>, <<ImgW - 2, 1>>, <<ImgW - 1, ImgH - 1>>, <<0, ImgH + 1>>, <<ImgW - 1, ImgH + 1>> }

\* 0 <= cx < self.out_img.width and 0 <= cy < self.out_img.height
InImage(img, c) == 0 <= c[1] /\ c[1] < img.width /\ 0 <= c[2] /\ c[2] < img.height

\* draw mode: the pixels after "pixels[cx, cy] = DRAW_COLOR" under its bounds test
DrawnPixels(img, c) == IF InImage(img, c) THEN [img.px EXCEPT ![c] = DRAW_COLOR] ELSE img.px

\* (cx - r <= p[0] <= cx + r) and (cy - r <= p[1] <= cy + r)
InEraseBox(p, c) ==
    /\ c[1] - ERASE_RADIUS <= p[1] /\ p[1] <= c[1] + ERASE_RADIUS
    /\ c[2] - ERASE_RADIUS <= p[2] /\ p[2] <= c[2] + ERASE_RADIUS

\* a slip of the comprehension: a point drawn twice is listed once
RECURSIVE ToRemove_Once(_, _)
ToRemove_Once(points, c) ==
    IF points = <<>> THEN <<>>
    ELSE IF InEraseBox(Head(points), c) /\ \A i \in 1..Len(Tail(points)) : Tail(points)[i] # Head(points)
         THEN <<Head(points)>> \o ToRemove_Once(Tail(points), c)
         ELSE ToRemove_Once(Tail(points), c)

\* to_remove = [p for p in self.drawn_points if ...]
RECURSIVE ToRemove(_, _)
ToRemove(points, c) ==
    IF points = <<>> THEN <<>>
    ELSE IF InEraseBox(Head(points), c) THEN <<Head(points)>> \o ToRemove(Tail(points), c)
         ELSE ToRemove(Tail(points), c)

\* list.remove(p): the list without its first element equal to p
RECURSIVE RemoveFirst(_, _)
RemoveFirst(points, p) ==
    IF points = <<>> THEN <<>>
    ELSE IF Head(points) = p THEN Tail(points)
         ELSE <<Head(points)>> \o RemoveFirst(Tail(points), p)

\* "for p in to_remove": the point is removed, then img_orig.getpixel(p)
\* raises IndexError for a point beyond the image (the clicks of the model
\* have no negative coordinate) and the handler is left; otherwise the pixel
\* is restored
RECURSIVE EraseLoop(_, _, _, _, _)
EraseLoop(points, img, px, origpx, todo) ==
    IF todo = <<>> THEN [points |-> points, px |-> px]
    ELSE IF ~InImage(img, Head(todo))
         THEN [points |-> RemoveFirst(points, Head(todo)), px |-> px]
         ELSE EraseLoop(RemoveFirst(points, Head(todo)), img,
                        [px EXCEPT ![Head(todo)] = origpx[Head(todo)]], origpx, Tail(todo))

\* _add_point_at(cx, cy), c = <<cx, cy>>
AddPointAt(c) ==
    /\ last_op' = [kind |-> current_mode, at |-> c, points |-> drawn_points, px |-> image.px]
    /\ IF current_mode = "draw"
       THEN /\ Len(drawn_points) < MaxPoints
            /\ drawn_points' = Append(drawn_points, c)
            /\ image' = [image EXCEPT !.px = DrawnPixels(image, c)]
       ELSE LET r == EraseLoop(drawn_points, image, image.px, img_orig, ToRemove(drawn_points, c))
            IN  /\ drawn_points' = r.points
                /\ image' = [image EXCEPT !.px = r.px]

\* a slip of the order: the ground vertex of the first click comes first
PolyVertices_FirstGroundFirst(points, h) ==
    points \o << <<points[1][1], h - 1>>, <<points[Len(points)][1], h - 1>> >>

\* poly_vertices = list(self.drawn_points) and the two appended ground vertices
PolyVertices(points, h) ==
    points \o << <<points[Len(points)][1], h - 1>>, <<points[1][1], h - 1>> >>

InitApp ==
    /\ image = MakeImage("main", ImgW, ImgH)
    /\ img_orig = image.px
    /\ vertices = <<>>
    /\ \E p \in ImagePatterns : tex_pixels = MakePixels(p, ImgW, ImgH)
    /\ tex_width = ImgW
    /\ tex_height = ImgH
    /\ frame_two_x = FRAME_ONE_X
    /\ frame_two_y = FRAME_ONE_Y
    /\ similarity_threshold = SIMILARITY_THRESHOLD
    /\ stage = "editing"
    /\ orig = <<>>
    /\ maskWrites = {}
    /\ fillWrites = {}
    /\ drawn_points = <<>>
    /\ current_mode = "draw"
    /\ cursor_x = image.width \div 2
    /\ cursor_y = image.height \div 2
    /\ saved = <<>>
    /\ process_calls = 0
    /\ entry_px = <<>>
    /\ last_op = NoOp
    /\ PocOff
    /\ AgainOff
    /\ BlurOff
    /\ EditorOff

\* on_mouse_click: the cursor jumps to the click, then _add_point_at
MouseClick ==
    /\ process_calls = 0
    /\ \E c \in ClickPoints :
          /\ cursor_x' = c[1]
          /\ cursor_y' = c[2]
          /\ AddPointAt(c)
    /\ UNCHANGED <<vertices, tex_pixels, tex_width, tex_height, frame_two_x, frame_two_y, similarity_threshold, stage, orig, maskWrites, fillWrites>>
    /\ UNCHANGED <<current_mode, img_orig, saved, process_calls, entry_px>>
    /\ UNCHANGED <<pocVars, againVars, blurVars, editorVars>>

\* on_enter_key: _add_point_at(self.cursor_x, self.cursor_y)
EnterKey ==
    /\ process_calls = 0
    /\ AddPointAt(<<cursor_x, cursor_y>>)
    /\ UNCHANGED <<vertices, tex_pixels, tex_width, tex_height, frame_two_x, frame_two_y, similarity_threshold, stage, orig, maskWrites, fillWrites>>
    /\ UNCHANGED <<current_mode, img_orig, cursor_x, cursor_y, saved, process_calls, entry_px>>
    /\ UNCHANGED <<pocVars, againVars, blurVars, editorVars>>

\* set_mode_draw
SetModeDraw ==
    /\ process_calls = 0
    /\ current_mode' = "draw"
    /\ UNCHANGED <<drawn_points, img_orig, cursor_x, cursor_y, saved, process_calls, entry_px, last_op>>
    /\ UNCHANGED <<pocVars, replaceVars, againVars, blurVars, editorVars>>

\* set_mode_erase
SetModeErase ==
    /\ process_calls = 0
    /\ current_mode' = "erase"
    /\ UNCHANGED <<drawn_points, img_orig, cursor_x, cursor_y, saved, process_calls, entry_px, last_op>>
    /\ UNCHANGED <<pocVars, replaceVars, againVars, blurVars, editorVars>>

\* process_image: nothing with fewer than 2 points; otherwise the polygon is
\* built, manual_fill_polygon runs on out_img and the image is saved
ProcessImage ==
    /\ process_calls = 0
    /\ process_calls' = 1
    /\ entry_px' = image.px
    /\ IF Len(drawn_points) < 2
       THEN UNCHANGED <<replaceVars, saved>>
       ELSE LET poly_vertices == PolyVertices(drawn_points, image.height)
                compared == [image EXCEPT !.px = ComparePass(image, tex_pixels, tex_width, tex_height, frame_two_x, frame_two_y)]
                filled == FillPass(compared, poly_vertices, tex_pixels, tex_width, tex_height, frame_two_x, frame_two_y)
            IN  /\ vertices' = poly_vertices
                /\ orig' = image.px
                /\ maskWrites' = ComparedCoords(image, tex_pixels, tex_width, tex_height, frame_two_x, frame_two_y)
                /\ fillWrites' = FilledCoords(compared, poly_vertices, tex_width, tex_height, frame_two_x, frame_two_y)
                /\ image' = [image EXCEPT !.px = filled]
                /\ saved' = filled
                /\ stage' = "returned"
                /\ UNCHANGED <<tex_pixels, tex_width, tex_height, frame_two_x, frame_two_y, similarity_threshold>>
    /\ UNCHANGED <<drawn_points, current_mode, img_orig, cursor_x, cursor_y, last_op>>
    /\ UNCHANGED <<pocVars, againVars, blurVars, editorVars>>

NextApp == MouseClick \/ EnterKey \/ SetModeDraw \/ SetModeErase \/ ProcessImage

SpecApp == InitApp /\ [][NextApp]_vars

----------------------------------------------------------------------------
(* manual_blur.py: ImageEditorApp, the pixel copier *)

\* src/manual_blur.py:15
DRAG_THRESHOLD == 5
\* src/manual_blur.py:106 and 107: the canvas size assumed before the window is laid out
FALLBACK_W == 800
FALLBACK_H == 600
\* src/manual_blur.py:104 and 105: what winfo_width() and winfo_height()
\* report once the window is laid out (800x600 at start, here widened by the user)
WinW == 804
WinH == 600

\* the width and height of the two images
EdW == 2
EdH == 1
\* the pan offsets stay within -MaxPan..MaxPan
MaxPan == 5

\* event.x and event.y of the mouse events
EventXs == {399, 400, 403, 405}
EventYs == {300, 304}

\* the main image and the reference image: same size, every pixel different
EditorImage == [width |-> EdW, height |-> EdH, px |-> [c \in Coords(EdW, EdH) |-> PatternPixel("grad", c[1], c[2])]]
ReferenceImage == MakeImage("main", EdW, EdH)

\* "if win_w < 5: win_w = 800", "if win_h < 5: win_h = 600"
CanvasWidth(winfo) == IF winfo < 5 THEN FALLBACK_W ELSE winfo
CanvasHeight(winfo) == IF winfo < 5 THEN FALLBACK_H ELSE winfo

\* redraw_image: center_x = (win_w // 2) + self.pan_x; zoom_scale stays 1.0
\* (the wheel is not among the events), so the drawn size is the image's
CenterX(winfo, pan) == (CanvasWidth(winfo) \div 2) + pan
CenterY(winfo, pan) == (CanvasHeight(winfo) \div 2) + pan

\* canvas_to_image_coords with zoom_scale 1.0: int(w * 1.0) = w, int(rel / 1.0) = rel
CanvasToImage(img, center_x, center_y, cx, cy) ==
    <<cx - (center_x - (img.width \div 2)), cy - (center_y - (img.height \div 2))>>

\* a slip of the comparison: a drag begins one pixel later
DragBegins_Late(dx, dy) == dx * dx + dy * dy > (DRAG_THRESHOLD + 1) * (DRAG_THRESHOLD + 1)

\* math.hypot(dx, dy) > DRAG_THRESHOLD, for whole dx and dy
DragBegins(dx, dy) == dx * dx + dy * dy > DRAG_THRESHOLD * DRAG_THRESHOLD

\* the pixels of the main image the pointer at (ex, ey) is over: the image is
\* drawn centred on (current_center_x, current_center_y)
UnderPointer(ex, ey) ==
    { c \in Coords(pil_image.width, pil_image.height) :
        /\ ex = current_center_x - (pil_image.width \div 2) + c[1]
        /\ ey = current_center_y - (pil_image.height \div 2) + c[2] }

\* __init__: the first redraw_image runs before the window is laid out
\* (winfo_width() and winfo_height() are 1)
InitEditor ==
    /\ pil_image = EditorImage
    /\ ref_image = ReferenceImage
    /\ pan_x = 0
    /\ pan_y = 0
    /\ drag_start_x = 0
    /\ drag_start_y = 0
    /\ is_dragging = FALSE
    /\ current_center_x = CenterX(1, 0)
    /\ current_center_y = CenterY(1, 0)
    /\ canvas_cursor = "arrow"
    /\ button = "up"
    /\ pressed_at = <<0, 0>>
    /\ moved_far = FALSE
    /\ last_event = NoEvent
    /\ PocOff
    /\ ReplaceOff
    /\ AgainOff
    /\ BlurOff
    /\ AppOff

\* on_mouse_down
MouseDown ==
    /\ button = "up"
    /\ \E ex \in EventXs, ey \in EventYs :
          /\ drag_start_x' = ex
          /\ drag_start_y' = ey
          /\ pressed_at' = <<ex, ey>>
    /\ is_dragging' = FALSE
    /\ button' = "down"
    /\ moved_far' = FALSE
    /\ last_event' = [NoEvent EXCEPT !.kind = "press"]
    /\ UNCHANGED <<pil_image, ref_image, pan_x, pan_y, current_center_x, current_center_y, canvas_cursor>>
    /\ UNCHANGED <<pocVars, replaceVars, againVars, blurVars, appVars>>

\* on_mouse_move (delivered while button 1 is held)
MouseMove ==
    /\ button = "down"
    /\ \E ex \in EventXs, ey \in EventYs :
          LET dx == ex - drag_start_x
              dy == ey - drag_start_y
          IN  /\ moved_far' = (moved_far \/ (ex - pressed_at[1]) * (ex - pressed_at[1])
                                            + (ey - pressed_at[2]) * (ey - pressed_at[2]) > 25)
              /\ IF is_dragging \/ DragBegins(dx, dy)
                 THEN /\ Abs(pan_x + dx) <= MaxPan
                      /\ Abs(pan_y + dy) <= MaxPan
                      /\ is_dragging' = TRUE
                      /\ canvas_cursor' = IF is_dragging THEN canvas_cursor ELSE "fleur"
                      /\ pan_x' = pan_x + dx
                      /\ pan_y' = pan_y + dy
                      /\ drag_start_x' = ex
                      /\ drag_start_y' = ey
                      /\ current_center_x' = CenterX(WinW, pan_x + dx)
                      /\ current_center_y' = CenterY(WinH, pan_y + dy)
                 ELSE UNCHANGED <<is_dragging, canvas_cursor, pan_x, pan_y, drag_start_x, drag_start_y, current_center_x, current_center_y>>
    /\ last_event' = [NoEvent EXCEPT !.kind = "motion"]
    /\ UNCHANGED <<pil_image, ref_image, button, pressed_at>>
    /\ UNCHANGED <<pocVars, replaceVars, againVars, blurVars, appVars>>

\* on_mouse_up, with apply_pixel_swap when the press was not a drag
MouseUp ==
    /\ button = "down"
    /\ \E ex \in EventXs, ey \in EventYs :
          LET c == CanvasToImage(pil_image, current_center_x, current_center_y, ex, ey)
              swap == ~is_dragging /\ InImage(pil_image, c)
          IN  /\ IF swap
                 THEN /\ pil_image' = [pil_image EXCEPT !.px[c] = ref_image.px[c]]
                      /\ current_center_x' = CenterX(WinW, pan_x)
                      /\ current_center_y' = CenterY(WinH, pan_y)
                 ELSE UNCHANGED <<pil_image, current_center_x, current_center_y>>
              /\ last_event' = [kind |-> "release", under |-> UnderPointer(ex, ey),
                                before |-> pil_image.px, far |-> moved_far,
                                moved |-> (last_event.kind = "motion"), copied |-> swap]
    /\ canvas_cursor' = "arrow"
    /\ is_dragging' = FALSE
    /\ button' = "up"
    /\ moved_far' = FALSE
    /\ UNCHANGED <<ref_image, pan_x, pan_y, drag_start_x, drag_start_y, pressed_at>>
    /\ UNCHANGED <<pocVars, replaceVars, againVars, blurVars, appVars>>

NextEditor == MouseDown \/ MouseMove \/ MouseUp

SpecEditor == InitEditor /\ [][NextEditor]_vars

----------------------------------------------------------------------------
(* Properties of match and find_position_in_first_image *)

\* every pixel of the (MATCH_BLOCK_SIZE+1)-square window at (tx, ty) is a pixel of frame
WindowInside(frame, tx, ty) ==
    \A dx \in 0..MATCH_BLOCK_SIZE, dy \in 0..MATCH_BLOCK_SIZE :
        /\ (ty + dy) \in DOMAIN frame
        /\ (tx + dx) \in DOMAIN frame[ty + dy]

\* the last call of match compared in-bounds windows of both frames
LastInside ==
    /\ last.kind # "none"
    /\ WindowInside(frame_one, start_x, start_y)
    /\ WindowInside(frame_two, last.second[1], last.second[2])

\* the distance of the k-th pixel pair (row by row, from 0) of the last call
PairDif(k) ==
    Dif(frame_one[start_y + (k \div (MATCH_BLOCK_SIZE + 1))][start_x + (k % (MATCH_BLOCK_SIZE + 1))],
        frame_two[last.second[2] + (k \div (MATCH_BLOCK_SIZE + 1))]
                 [last.second[1] + (k % (MATCH_BLOCK_SIZE + 1))])

\* the number of mismatching pairs among the first n pairs of the last call
Mismatches(n) == Cardinality({k \in 0..(n - 1) : PairDif(k) >= PIXEL_DIFF_THRESHOLD})

\* the number of matching pairs of the whole block of the last call
MatchedPairs ==
    Cardinality({k \in 0..((MATCH_BLOCK_SIZE + 1) * (MATCH_BLOCK_SIZE + 1) - 1) :
                    PairDif(k) < PIXEL_DIFF_THRESHOLD})

FullBlock == (MATCH_BLOCK_SIZE + 1) * (MATCH_BLOCK_SIZE + 1)

\* the offsets find_position_in_first_image enumerates
Offsets == (FirstX..LastX) \X (FirstY..LastY)

\* a is enumerated before b: lower y, then lower x
Before(a, b) == a[2] < b[2] \/ (a[2] = b[2] /\ a[1] < b[1])

\* what match returns for the window of frame_two at offset o
ResultAt(o) == Match(frame_one, frame_two, o[1], o[2], start_x, start_y)

\* the score find_position_in_first_image compares, i - j
ScoreAt(o) == ResultAt(o).ret[1] - ResultAt(o).ret[2]

AllInfeasible == \A o \in Offsets : ResultAt(o).ret = <<INFEASIBLE, 0>>

\* C1 (as claimed): when every offset of the search window is infeasible,
\* find_position_in_first_image returns the sentinel coordinates (-1, -1).
C1_SentinelWhenAllInfeasible ==
    (pc = "done" /\ AllInfeasible) => (xx = -1 /\ yy = -1)

\* C2 (as claimed): whenever the window at either top-left would read outside
\* the buffer it is read from, match returns the infeasible sentinel without
\* reading a pixel and without raising, also for frames of different sizes.
C2_RejectsEveryOutsideWindow ==
    (/\ last.kind # "none"
     /\ \/ ~WindowInside(frame_one, start_x, start_y)
        \/ ~WindowInside(frame_two, last.second[1], last.second[2]))
    => (/\ last.kind = "rejected"
        /\ last.ret = <<INFEASIBLE, 0>>
        /\ last.visited = 0)

\* C3: match stops, returning the sentinel, at the first visited pixel at
\* which the mismatches exceed MAX_MISMATCH_TOLERANCE and at no other: no
\* earlier prefix exceeded it, and a call that ran on never exceeded it.  Two
\* accepted in-bounds blocks that mismatch everywhere, with a tolerance c
\* below the block's pixel count, are left after exactly c + 1 pixels.
C3_EarlyExitAtFirstExcess ==
    /\ last.kind = "capped" =>
          /\ last.ret = <<INFEASIBLE, 0>>
          /\ Mismatches(last.visited) > MAX_MISMATCH_TOLERANCE
          /\ \A n \in 1..(last.visited - 1) : Mismatches(n) <= MAX_MISMATCH_TOLERANCE
    /\ last.kind = "scanned" =>
          \A n \in 1..FullBlock : Mismatches(n) <= MAX_MISMATCH_TOLERANCE
    /\ last.kind = "raised" =>
          \A n \in 1..(last.visited - 1) : Mismatches(n) <= MAX_MISMATCH_TOLERANCE
    /\ (/\ LastInside
        /\ last.kind # "rejected"
        /\ Mismatches(FullBlock) = FullBlock
        /\ MAX_MISMATCH_TOLERANCE < FullBlock)
       => (/\ last.kind = "capped"
           /\ last.ret = <<INFEASIBLE, 0>>
           /\ last.visited = MAX_MISMATCH_TOLERANCE + 1)

\* C3 witness: an accepted call on blocks that mismatch everywhere was left
\* early, before the block was scanned.
C3_Witness ==
    /\ LastInside
    /\ last.kind = "capped"
    /\ Mismatches(FullBlock) = FullBlock
    /\ last.visited = MAX_MISMATCH_TOLERANCE + 1
    /\ last.visited < FullBlock

C5_FirstMinimumWins ==
    pc = "done" =>
        \E o \in Offsets :
            /\ \A p \in Offsets : ScoreAt(o) <= ScoreAt(p)
            /\ \A p \in Offsets : ScoreAt(p) = ScoreAt(o) => ~Before(p, o)
            /\ min_val = ScoreAt(o)
            /\ xx = o[1] + (MATCH_BLOCK_SIZE \div 2)
            /\ yy = o[2] + (MATCH_BLOCK_SIZE \div 2)

\* C5 witness: a finished search whose feasible minimum is attained by two
\* offsets and not by the first offset enumerated.
C5_Witness ==
    /\ pc = "done"
    /\ min_val < INFEASIBLE
    /\ \E o \in Offsets, p \in Offsets : o # p /\ ScoreAt(o) = min_val /\ ScoreAt(p) = min_val
    /\ ScoreAt(<<FirstX, FirstY>>) > min_val

\* the frames are the same buffer and the block at the start position is in bounds
IdenticalInBounds ==
    /\ frame_one = frame_two
    /\ WindowInside(frame_one, start_x, start_y)

\* C6 (as claimed): on identical buffers, with the start block in bounds, the
\* block matches 100% at offset (0,0) and the search returns
\* (start_x + MATCH_BLOCK_SIZE // 2, start_y + MATCH_BLOCK_SIZE // 2).
C6_IdenticalBestOffsetIsZero ==
    (pc = "done" /\ IdenticalInBounds) =>
        /\ ResultAt(<<start_x, start_y>>).ret = <<FullBlock, FullBlock>>
        /\ xx = start_x + (MATCH_BLOCK_SIZE \div 2)
        /\ yy = start_y + (MATCH_BLOCK_SIZE \div 2)

\* C6 (amended): on identical buffers, with the start block in bounds, the
\* block matches 100% at offset (0,0) (score 0) and the search's minimum is 0;
\* the coordinate returned is that of the first offset in scan order whose
\* score is 0, which is (start_x + MATCH_BLOCK_SIZE // 2,
\* start_y + MATCH_BLOCK_SIZE // 2) exactly when no offset scanned before
\* (0,0) scores 0 as well.
C6_IdenticalFirstZeroWins ==
    (pc = "done" /\ IdenticalInBounds) =>
        /\ ResultAt(<<start_x, start_y>>).kind = "scanned"
        /\ ResultAt(<<start_x, start_y>>).ret = <<FullBlock, FullBlock>>
        /\ min_val = 0
        /\ \E o \in Offsets :
              /\ ScoreAt(o) = 0
              /\ \A p \in Offsets : Before(p, o) => ScoreAt(p) # 0
              /\ xx = o[1] + (MATCH_BLOCK_SIZE \div 2)
              /\ yy = o[2] + (MATCH_BLOCK_SIZE \div 2)
        /\ (\A p \in Offsets : Before(p, <<start_x, start_y>>) => ScoreAt(p) # 0)
              <=> (/\ xx = start_x + (MATCH_BLOCK_SIZE \div 2)
                   /\ yy = start_y + (MATCH_BLOCK_SIZE \div 2))

\* C6 witness: a finished search on identical buffers, the start block in
\* bounds and other offsets feasible, that returned the centre of offset (0,0).
C6_Witness ==
    /\ pc = "done"
    /\ IdenticalInBounds
    /\ min_val = 0
    /\ xx = start_x + (MATCH_BLOCK_SIZE \div 2)
    /\ yy = start_y + (MATCH_BLOCK_SIZE \div 2)
    /\ \E p \in Offsets : Before(p, <<start_x, start_y>>) /\ ScoreAt(p) < INFEASIBLE

\* the two frames have the same dimensions
SameDims ==
    /\ Len2(frame_one) = Len2(frame_two)
    /\ Len2(frame_one[0]) = Len2(frame_two[0])

\* the top-left positions around and inside frame_one
TopLefts == ((-1)..Len2(frame_one[0])) \X ((-1)..Len2(frame_one))

\* match called with the window at top-left t of frame_one for both blocks
\* returns from its bounds check
RejectedAt(t) == Match(frame_one, frame_one, t[1], t[2], t[1], t[2]).kind = "rejected"

\* C16 (as claimed): the bounds check is off by one with respect to the
\* window match samples: in a buffer that holds a window there is a top-left
\* at which every pixel of the inclusive (MATCH_BLOCK_SIZE+1)-square window
\* lies inside the buffer and which the bounds check rejects all the same.
C16_InBoundsWindowRejected ==
    (/\ last.kind # "none"
     /\ \E t \in TopLefts : WindowInside(frame_one, t[1], t[2]))
    => \E t \in TopLefts : WindowInside(frame_one, t[1], t[2]) /\ RejectedAt(t)

\* C16 (amended): the bounds check of match is exact for the inclusive
\* (MATCH_BLOCK_SIZE+1)-square window it samples: a top-left is rejected by
\* it exactly when some pixel of its window lies outside the buffer, and, on
\* two buffers of the same dimensions, a call returns from the bounds check
\* exactly when one of the two windows is not entirely inside its buffer.
\* (The first part is stated for the buffer of a search that has returned.)
C16_BoundsCheckExact ==
    /\ pc = "done" =>
          \A t \in TopLefts : RejectedAt(t) <=> ~WindowInside(frame_one, t[1], t[2])
    /\ (last.kind # "none" /\ SameDims) =>
          (last.kind = "rejected" <=>
              ~(/\ WindowInside(frame_one, start_x, start_y)
                /\ WindowInside(frame_two, last.second[1], last.second[2])))

\* C16 witness: on buffers of the same dimensions, a call whose second window
\* ends on the buffer's last column and last row passed the bounds check.
C16_Witness ==
    /\ last.kind \in {"scanned", "capped"}
    /\ SameDims
    /\ WindowInside(frame_one, start_x, start_y)
    /\ last.second[1] + MATCH_BLOCK_SIZE = Len2(frame_two[0]) - 1
    /\ last.second[2] + MATCH_BLOCK_SIZE = Len2(frame_two) - 1

----------------------------------------------------------------------------
(* Properties of manual_fill_polygon *)

\* the texture sample of the target coordinate c
Sample(c) == tex_pixels[TexCoord(c, frame_two_x, frame_two_y)]

\* the sample coordinate of c is in bounds of the texture
SampleInBounds(c) == InTexture(TexCoord(c, frame_two_x, frame_two_y), tex_width, tex_height)

ImageCoords == Coords(image.width, image.height)

\* manual_fill_polygon has returned after running both loops
Filled == stage = "returned" /\ vertices # <<>>

\* the sorted intersections of scanline sy
SortedIntersections(sy) == Sorted(IntersectionsFrom(vertices, sy, 1))

\* the intersection pairs (0,1), (2,3), ... of the sorted list s, by the
\* 1-based index of their first element
PairStarts(s) == { i \in 1..Len(s) : i % 2 = 1 /\ i + 1 <= Len(s) }

\* the clamped rounded endpoints of the pair of s that starts at index i
SpanStart(s, i) == Max(0, Round(s[i]))
SpanEnd(s, i) == Min(image.width - 1, Round(s[i + 1]))

\* the columns from round(xStart) to round(xEnd) inclusive, clamped, of some
\* pair of scanline sy
InclusiveColumns(sy) ==
    LET s == SortedIntersections(sy)
    IN  UNION { SpanStart(s, i)..SpanEnd(s, i) : i \in PairStarts(s) }

\* the columns strictly between the clamped rounded endpoints of some pair
InteriorColumns(sy) ==
    LET s == SortedIntersections(sy)
    IN  UNION { (SpanStart(s, i) + 1)..(SpanEnd(s, i) - 1) : i \in PairStarts(s) }

\* the two endpoint columns of the pairs of scanline sy
EndpointColumns(sy) ==
    LET s == SortedIntersections(sy)
    IN  UNION { {SpanStart(s, i), SpanEnd(s, i)} : i \in PairStarts(s) }

\* C7 (as claimed): for each scanline and each pair of sorted intersections
\* the fill overwrites every x from round(xStart) to round(xEnd) inclusive
\* (clamped) whose sample is in bounds, the two endpoint columns included.
C7_FillsSpanInclusive ==
    Filled =>
        \A sy \in ScanLines(image, vertices) : \A cx \in InclusiveColumns(sy) :
            SampleInBounds(<<cx, sy>>) =>
                /\ <<cx, sy>> \in fillWrites
                /\ image.px[<<cx, sy>>] = Sample(<<cx, sy>>)

\* C7 (amended): for each scanline of the clamped vertical extent and each
\* pair of sorted intersections the fill overwrites, with its sample, every x
\* strictly between max(0, round(xStart)) and min(width-1, round(xEnd)) whose
\* sample is in bounds; the two endpoint columns are not overwritten.
C7_FillsSpanInterior ==
    Filled =>
        \A sy \in ScanLines(image, vertices) :
            /\ \A cx \in InteriorColumns(sy) :
                  SampleInBounds(<<cx, sy>>) =>
                      /\ <<cx, sy>> \in fillWrites
                      /\ image.px[<<cx, sy>>] = Sample(<<cx, sy>>)
            /\ \A cx \in EndpointColumns(sy) : <<cx, sy>> \notin fillWrites

\* C7 witness: a fill that overwrote the interior of a span of two columns or
\* more and left a changed pixel there, the endpoint's sample being in bounds.
C7_Witness ==
    /\ Filled
    /\ \E sy \in ScanLines(image, vertices) :
          \E i \in PairStarts(SortedIntersections(sy)) :
             LET first == SpanStart(SortedIntersections(sy), i)
                 final == SpanEnd(SortedIntersections(sy), i)
             IN  /\ final - first >= 3
                 /\ SampleInBounds(<<first, sy>>)
                 /\ \E cx \in (first + 1)..(final - 1) :
                       /\ <<cx, sy>> \in fillWrites
                       /\ image.px[<<cx, sy>>] # orig[<<cx, sy>>]

\* Reference scan-line computation, from the vertices alone.
\* Edge i runs from vertices[i] to the next vertex (the last one to the first).
EdgeFrom(i) == vertices[i]
EdgeTo(i) == vertices[(i % Len(vertices)) + 1]

\* scanline sy lies in the half-open vertical interval of edge i
EdgeSpans(i, sy) ==
    LET a == EdgeFrom(i)[2]
        b == EdgeTo(i)[2]
    IN  (a < b /\ a <= sy /\ sy < b) \/ (b < a /\ b <= sy /\ sy < a)

\* the sign of X - t/2, where X is the abscissa at which edge i meets scanline sy
HalfGap(i, sy, t) ==
    LET d == EdgeTo(i)[2] - EdgeFrom(i)[2]
        n == EdgeFrom(i)[1] * d + (sy - EdgeFrom(i)[2]) * (EdgeTo(i)[1] - EdgeFrom(i)[1])
    IN  IF d > 0 THEN 2 * n - t * d ELSE t * d - 2 * n

\* X rounds (a half to the even neighbour) to a column left of cx
RoundsLeftOf(i, sy, cx) ==
    \/ HalfGap(i, sy, 2 * cx - 1) < 0
    \/ HalfGap(i, sy, 2 * cx - 1) = 0 /\ (cx - 1) % 2 = 0

\* X rounds (a half to the even neighbour) to a column right of cx
RoundsRightOf(i, sy, cx) ==
    \/ HalfGap(i, sy, 2 * cx + 1) > 0
    \/ HalfGap(i, sy, 2 * cx + 1) = 0 /\ (cx + 1) % 2 = 0

\* c lies strictly inside an intersection pair of its scanline: an odd number
\* of crossings round to its left, none rounds onto it, and it is neither the
\* first nor the last column of the image
StrictlyInsidePair(c) ==
    LET crossing == { i \in DOMAIN vertices : EdgeSpans(i, c[2]) }
        left == { i \in crossing : RoundsLeftOf(i, c[2], c[1]) }
        right == { i \in crossing : RoundsRightOf(i, c[2], c[1]) }
    IN  /\ Cardinality(left) % 2 = 1
        /\ left \cup right = crossing
        /\ right # {}
        /\ 0 < c[1]
        /\ c[1] < image.width - 1

\* C8: the fill writes, and leaves an exact source copy, only at coordinates
\* strictly inside an intersection pair of their own scanline: never at or
\* beyond the rounded span endpoints, never on a scanline outside the
\* polygon's vertical extent clamped to [0, height-1], never at an x outside
\* [0, width-1].
C8_FillOnlyStrictlyInside ==
    stage = "returned" =>
        /\ \A c \in fillWrites :
              /\ c \in ImageCoords
              /\ StrictlyInsidePair(c)
              /\ c[2] >= Max(0, MinVertexY(vertices))
              /\ c[2] <= Min(image.height - 1, MaxVertexY(vertices))
              /\ SampleInBounds(c)
              /\ image.px[c] = Sample(c)
        /\ \A c \in ImageCoords :
              (/\ image.px[c] # orig[c]
               /\ SampleInBounds(c)
               /\ image.px[c] = Sample(c)) => c \in fillWrites

\* C8 witness: a fill that wrote some pixels and not the in-texture endpoint
\* column next to them, on a polygon reaching outside the image.
C8_Witness ==
    /\ Filled
    /\ \E c \in fillWrites :
          /\ <<c[1] - 1, c[2]>> \notin fillWrites
          /\ SampleInBounds(<<c[1] - 1, c[2]>>)
          /\ <<c[1] - 1, c[2]>> \in ImageCoords
    /\ MaxVertexY(vertices) > image.height - 1
    /\ MinVertexY(vertices) < 0

\* C9 (as claimed): with fewer than 3 vertices manual_fill_polygon modifies
\* no pixel of the target.
C9_DegenerateIsNoOp ==
    (stage = "returned" /\ Len(vertices) < 3) => image.px = orig

\* C10 (as claimed): after manual_fill_polygon no pixel inside the polygon or
\* on its edge (the span endpoint columns of each scanline included) holds a
\* perturbed value written by the comparison loop.
C10_NoPerturbedPixelInsideOrOnEdge ==
    Filled =>
        \A sy \in ScanLines(image, vertices) : \A cx \in InclusiveColumns(sy) :
            ~(/\ <<cx, sy>> \in maskWrites
              /\ image.px[<<cx, sy>>] = Nudged(Sample(<<cx, sy>>)))

\* c lies outside the polygon: on no span, endpoints included, of its scanline
Outside(c) ==
    \/ c[2] \notin ScanLines(image, vertices)
    \/ c[1] \notin InclusiveColumns(c[2])

\* the Manhattan distance between the target pixel at c, as it was when
\* manual_fill_polygon was called, and its sample
OrigDistance(c) ==
    Abs(orig[c][1] - Sample(c)[1]) + Abs(orig[c][2] - Sample(c)[2]) + Abs(orig[c][3] - Sample(c)[3])

\* C11: after manual_fill_polygon on a polygon (a non-empty vertex list),
\* every pixel outside the polygon whose sample is in bounds and at a
\* Manhattan distance below SIMILARITY_THRESHOLD is (r', g2, b2), with
\* r' = r2 - 1 when r2 = 255 and r2 + 1 otherwise, so that every channel is in
\* 0..255 and the pixel differs from the sample by exactly 1; every other
\* pixel outside the polygon (sample out of bounds, or distance at or above
\* the threshold) is as it was.
C11_OutsideMasked ==
    Filled =>
        \A c \in ImageCoords :
            Outside(c) =>
                IF SampleInBounds(c) /\ OrigDistance(c) < SIMILARITY_THRESHOLD
                THEN /\ image.px[c][1] = (IF Sample(c)[1] = 255 THEN Sample(c)[1] - 1 ELSE Sample(c)[1] + 1)
                     /\ image.px[c][2] = Sample(c)[2]
                     /\ image.px[c][3] = Sample(c)[3]
                     /\ \A ch \in 1..3 : image.px[c][ch] \in 0..255
                     /\ Abs(image.px[c][1] - Sample(c)[1]) = 1
                ELSE image.px[c] = orig[c]

\* C11 witness: a run on a polygon with a written interior that left, outside
\* it, a pixel nudged down from 255, a pixel nudged up, a pixel at a distance
\* of exactly the threshold untouched and a pixel without sample untouched.
C11_Witness ==
    /\ Filled
    /\ fillWrites # {}
    /\ \E c \in ImageCoords :
          /\ Outside(c) /\ SampleInBounds(c) /\ OrigDistance(c) = 0
          /\ Sample(c)[1] = 255 /\ image.px[c][1] = 254
    /\ \E c \in ImageCoords :
          /\ Outside(c) /\ SampleInBounds(c) /\ OrigDistance(c) = 0
          /\ Sample(c)[1] < 255 /\ image.px[c][1] = Sample(c)[1] + 1
    /\ \E c \in ImageCoords :
          /\ Outside(c) /\ SampleInBounds(c) /\ OrigDistance(c) = SIMILARITY_THRESHOLD
          /\ image.px[c] = orig[c]
    /\ \E c \in ImageCoords :
          /\ Outside(c) /\ ~SampleInBounds(c) /\ image.px[c] = orig[c]

\* C12 (as claimed): the fill and the comparison (masking) step write disjoint
\* sets of pixels, so that one run of manual_fill_polygon writes no pixel of
\* the target more than once.
C12_NoPixelWrittenTwice ==
    stage = "returned" => maskWrites \cap fillWrites = {}

\* the sample coordinate of c, from the configured alignment alone
OffsetSample(c) == <<c[1] + (frame_two_x - FRAME_ONE_X), c[2] + (frame_two_y - FRAME_ONE_Y)>>

\* the sample coordinate of c is not a coordinate of the source
SampleOutside(c) ==
    \/ OffsetSample(c)[1] \notin 0..(tex_width - 1)
    \/ OffsetSample(c)[2] \notin 0..(tex_height - 1)

\* C13: a pixel whose sample coordinate (x, y) + offset is out of the source's
\* bounds is written by neither loop and keeps its value; when the offset
\* pushes every sample coordinate out of bounds the target is left unchanged,
\* whatever the polygon.
C13_OutOfBoundsSampleUntouched ==
    stage \in {"compared", "returned"} =>
        /\ \A c \in ImageCoords :
              SampleOutside(c) =>
                  /\ c \notin maskWrites
                  /\ c \notin fillWrites
                  /\ image.px[c] = orig[c]
        /\ (\A c \in ImageCoords : SampleOutside(c)) => image.px = orig

\* C13 witness: a run whose offset pushes every sample out of the source, on
\* a polygon whose spans have interior columns, that changed nothing.
C13_Witness ==
    /\ Filled
    /\ \A c \in ImageCoords : SampleOutside(c)
    /\ \E sy \in ScanLines(image, vertices) : InteriorColumns(sy) # {}
    /\ image.px = orig


----------------------------------------------------------------------------
(* Properties of gaussian_blur *)

\* C14 (as claimed): gaussian_blur with radius 0 completes normally with the
\* single-element kernel [1.0] and returns a buffer equal to its input, pixel
\* for pixel.
C14_RadiusZeroReturnsInput ==
    (radius = 0 /\ blur_pc \in {"kernel", "horizontal", "returned", "raised"}) =>
        /\ blur_pc # "raised"
        /\ kernel = <<1>>
        /\ blur_pc = "returned" => blurred = blur_image

\* C15 (as claimed): a radius below 0, whose kernel is empty, is rejected:
\* neither gaussian_kernel nor gaussian_blur returns for it.
C15_NegativeRadiusRejected ==
    (radius < 0 /\ blur_pc # "off") => blur_pc \notin {"kernel", "horizontal", "returned"}


----------------------------------------------------------------------------
(* Properties of TexturizerApp.process_image *)

\* process_image has been called with n drawn points or more
Processed(n) == process_calls = 1 /\ Len(drawn_points) >= n

\* C17: process_image does nothing (no fill, no save, the image as it was)
\* when fewer than 2 points have been drawn; otherwise the polygon passed to
\* manual_fill_polygon is the drawn points in click order followed by
\* (lastClick.x, height-1) and then (firstClick.x, height-1), so that it has
\* at least 4 vertices, and the filled image is saved.
C17_ProcessImagePolygon ==
    process_calls = 1 =>
        IF Len(drawn_points) < 2
        THEN /\ stage = "editing"
             /\ vertices = <<>>
             /\ maskWrites = {} /\ fillWrites = {}
             /\ image.px = entry_px
             /\ saved = <<>>
        ELSE /\ stage = "returned"
             /\ Len(vertices) = Len(drawn_points) + 2
             /\ Len(vertices) >= 4
             /\ \A i \in 1..Len(drawn_points) : vertices[i] = drawn_points[i]
             /\ vertices[Len(drawn_points) + 1] = <<drawn_points[Len(drawn_points)][1], image.height - 1>>
             /\ vertices[Len(drawn_points) + 2] = <<drawn_points[1][1], image.height - 1>>
             /\ orig = entry_px
             /\ saved = image.px

\* C17 witness: process_image called with exactly two points, of different
\* x, after a point was erased; the fill wrote pixels and the result was saved.
C17_Witness ==
    /\ Processed(2)
    /\ Len(drawn_points) = 2
    /\ drawn_points[1][1] # drawn_points[2][1]
    /\ Len(vertices) = 4
    /\ fillWrites # {}
    /\ saved = image.px
    /\ \E c \in ImageCoords : entry_px[c] = DRAW_COLOR /\ img_orig[c] # DRAW_COLOR
    /\ current_mode = "draw"

\* no drawn point lies below the image's bottom row
NoPointBelow == \A i \in 1..Len(drawn_points) : drawn_points[i][2] <= image.height - 1

\* C18 (as claimed): the fill never writes on the scanline of the polygon's
\* maximum vertex y, and with the ground vertices appended by process_image
\* the image's bottom row is never filled from the source.
C18_BottomRowNeverFilled ==
    Processed(2) =>
        /\ \A c \in fillWrites : c[2] # MaxVertexY(vertices)
        /\ \A c \in fillWrites : c[2] # image.height - 1

\* C18 (amended): the fill never writes on the scanline of the polygon's
\* maximum vertex y; with the ground vertices appended by process_image the
\* image's bottom row is not filled from the source when no drawn point lies
\* below the bottom row (the ground vertices then have the maximum y).
C18_MaxScanlineNeverFilled ==
    Processed(2) =>
        /\ \A c \in fillWrites : c[2] # MaxVertexY(vertices)
        /\ NoPointBelow =>
              /\ MaxVertexY(vertices) = image.height - 1
              /\ \A c \in fillWrites : c[2] # image.height - 1

\* C18 witness: process_image on points none of which lies below the image;
\* the fill wrote on the row above the bottom row and not on the bottom row.
C18_Witness ==
    /\ Processed(2)
    /\ NoPointBelow
    /\ \E c \in fillWrites : c[2] = image.height - 2
    /\ \A c \in fillWrites : c[2] # image.height - 1


----------------------------------------------------------------------------
(* Properties of a repeated manual_fill_polygon *)

\* C19: manual_fill_polygon is idempotent: run a second time with the same
\* target, polygon, offset, similarity threshold and source (a buffer other
\* than the target), it leaves the target exactly as the first run left it.
C19_SecondRunChangesNothing ==
    (reruns = 1 /\ stage = "returned") => image.px = first_px

\* C19 witness: a second run, with a threshold above 1, whose comparison loop
\* wrote a pixel the fill did not write and whose fill wrote pixels, on a
\* target the same as after the first run.
C19_Witness ==
    /\ reruns = 1
    /\ stage = "returned"
    /\ similarity_threshold > 1
    /\ fillWrites # {}
    /\ maskWrites \ fillWrites # {}
    /\ image.px = first_px


----------------------------------------------------------------------------
(* Properties of the pixel copier's mouse handling *)

\* the pixels of the main image that differ from what they were before the
\* last release
ChangedByRelease ==
    { c \in Coords(pil_image.width, pil_image.height) : pil_image.px[c] # last_event.before[c] }

----------------------------------------------------------------------------
(* Properties of drawing and erasing points *)

\* the points of a list, as a set
PointSet(points) == { points[i] : i \in 1..Len(points) }

\* p is within ERASE_RADIUS columns and ERASE_RADIUS rows of c
Near(p, c) ==
    LET far == IF Abs(p[1] - c[1]) > Abs(p[2] - c[2]) THEN Abs(p[1] - c[1]) ELSE Abs(p[2] - c[2])
    IN  far <= ERASE_RADIUS

\* the points of a list that are not near c, in their order
RECURSIVE Survivors(_, _)
Survivors(points, c) ==
    IF points = <<>> THEN <<>>
    ELSE IF Near(Head(points), c) THEN Survivors(Tail(points), c)
         ELSE <<Head(points)>> \o Survivors(Tail(points), c)

\* the last operation was an erase at a coordinate of the image, with every
\* point drawn so far inside the image
ErasedInBounds ==
    /\ process_calls = 0
    /\ last_op.kind = "erase"
    /\ InImage(image, last_op.at)
    /\ \A p \in PointSet(last_op.points) : InImage(image, p)

\* C21: before processing, every pixel of out_img equals img_orig there or is
\* DRAW_COLOR at a coordinate in drawn_points; and an erase at (cx, cy), with
\* the points and the erase inside the image, removes every drawn point within
\* ERASE_RADIUS of (cx, cy), duplicates included, restores the original pixel
\* of each, and leaves every other point and pixel as it was.
C21_DrawnOrOriginal ==
    /\ process_calls = 0 =>
          \A c \in ImageCoords :
              \/ image.px[c] = img_orig[c]
              \/ image.px[c] = DRAW_COLOR /\ c \in PointSet(drawn_points)
    /\ ErasedInBounds =>
          /\ drawn_points = Survivors(last_op.points, last_op.at)
          /\ \A c \in ImageCoords :
                image.px[c] = IF c \in PointSet(last_op.points) /\ Near(c, last_op.at)
                              THEN img_orig[c]
                              ELSE last_op.px[c]

\* C21 witness: an erase inside the image removed a point drawn twice,
\* restored its pixel and left a point beyond ERASE_RADIUS, still drawn.
C21_Witness ==
    /\ ErasedInBounds
    /\ Len(last_op.points) = 3
    /\ Len(drawn_points) = 1
    /\ \E i, j \in 1..3 : i # j /\ last_op.points[i] = last_op.points[j]
    /\ \E c \in ImageCoords : last_op.px[c] = DRAW_COLOR /\ image.px[c] # DRAW_COLOR
    /\ image.px[drawn_points[1]] = DRAW_COLOR


============================================================================
